---- MODULE Spec2Model ----
(***************************************************************************)
(* A model of the HL7 bulk editor of src/app1.py: the message splitter,    *)
(* the per-line predicate check, the message-level filter check, the bulk  *)
(* edit applier, the diff highlighter and the assembly of edit groups.     *)
(*                                                                         *)
(* Text is modelled character by character: a Python str is a sequence of  *)
(* one-character strings, so str.split and str.join are computed, and a    *)
(* delimiter written into a value is a delimiter the next split sees.      *)
(***************************************************************************)
EXTENDS Integers, Sequences, FiniteSets, TLC

VARIABLES
    pc,                     \* the step the run is at
    raw_text,               \* split_hl7_messages: the decoded blob
    messages,               \* the corpus: a sequence of message texts
    filters,                \* message_satisfies_filters_exact_lines: a filter list
    edit_rows,              \* the edit rows typed into the form of one group
    more_filters,           \* the same list with one more FilterPredicate added
    passed,                 \* the verdict on messages[1] under filters
    passed_more,            \* the verdict on messages[1] under more_filters
    edits_by_filter_group,  \* the edit groups handed to the applier
    line_matches,           \* segment_line_matches, per group and line of messages[1]
    edited_messages,        \* apply_bulk_edits_exact_lines(messages, groups)
    edited_stepwise,        \* the corpus after the applier ran a second time
    highlighted,            \* highlight_diff's (before, after) pair
    raised                  \* whether a call raised (or the UI reported an error)

vars == <<pc, raw_text, messages, filters, edit_rows, more_filters, passed, passed_more,
          edits_by_filter_group, line_matches, edited_messages, edited_stepwise,
          highlighted, raised>>

-----------------------------------------------------------------------------
(* Bounds of the model.                                                    *)

\* pieces concatenated into a blob
MaxPieces == 4
\* lines of a message
MaxLines == 2
\* predicates of a filter list handed to the message-level check
MaxPredicates == 2
\* filters of an edit group
MaxFilters == 1
\* edits of an edit group
MaxEdits == 2

-----------------------------------------------------------------------------
(* Python's str and list primitives, on sequences of characters.           *)

\* "".join of a list of strings
Concat(ss) ==
    LET RECURSIVE F(_)
        F(i) == IF i > Len(ss) THEN <<>> ELSE ss[i] \o F(i + 1)
    IN  F(1)

\* s.split(d) for a one-character separator d: always at least one part
Split(s, d) ==
    LET RECURSIVE F(_, _, _)
        F(i, cur, acc) ==
            IF i > Len(s) THEN Append(acc, cur)
            ELSE IF s[i] = d THEN F(i + 1, <<>>, Append(acc, cur))
            ELSE F(i + 1, Append(cur, s[i]), acc)
    IN  F(1, <<>>, <<>>)

\* d.join(parts)
Join(parts, d) ==
    LET RECURSIVE F(_)
        F(i) == IF i > Len(parts) THEN <<>>
                ELSE IF i = Len(parts) THEN parts[i]
                ELSE parts[i] \o <<d>> \o F(i + 1)
    IN  F(1)

\* the characters str.strip() removes, among those of the model's alphabet
Whitespace == {" ", "\n", "\r", "\t"}

\* s.strip()
Strip(s) ==
    LET keep == {i \in 1..Len(s) : s[i] \notin Whitespace}
    IN  IF keep = {} THEN <<>>
        ELSE LET lo == CHOOSE i \in keep : \A j \in keep : i <= j
                 hi == CHOOSE i \in keep : \A j \in keep : j <= i
             IN  SubSeq(s, lo, hi)

\* s.replace(a, b) for one-character a and b
Replace(s, a, b) == [i \in 1..Len(s) |-> IF s[i] = a THEN b ELSE s[i]]

\* s.startswith(p)
StartsWith(s, p) == Len(s) >= Len(p) /\ SubSeq(s, 1, Len(p)) = p

\* the decimal digits, for int() and str()
Digits == <<"0", "1", "2", "3", "4", "5", "6", "7", "8", "9">>

\* int(s) for a string of decimal digits
ParseInt(s) ==
    LET digit(c) == (CHOOSE d \in 1..Len(Digits) : Digits[d] = c) - 1
        RECURSIVE F(_, _)
        F(i, acc) == IF i > Len(s) THEN acc ELSE F(i + 1, acc * Len(Digits) + digit(s[i]))
    IN  F(1, 0)

\* str(n) for n >= 0
IntToStr(n) ==
    LET RECURSIVE F(_)
        F(k) == IF k < Len(Digits) THEN <<Digits[k + 1]>>
                ELSE F(k \div Len(Digits)) \o <<Digits[(k % Len(Digits)) + 1]>>
    IN  F(n)

\* s.lower(), on the letters of the model's alphabet
Lower(s) ==
    LET upper == <<"D", "E", "L", "T", "X">>
        lower == <<"d", "e", "l", "t", "x">>
        low(c) == IF \E k \in 1..Len(upper) : upper[k] = c
                  THEN lower[CHOOSE k \in 1..Len(upper) : upper[k] = c]
                  ELSE c
    IN  [i \in 1..Len(s) |-> low(s[i])]

\* not s.strip()
IsBlank(s) == Strip(s) = <<>>

\* seq[i] with Python's 0-based index i >= 0 is defined
HasIndex(seq, i) == i < Len(seq)

\* seq[i] with Python's 0-based index
PyAt(seq, i) == seq[i + 1]

\* None, and the truth value of an optional integer (None and 0 are both false)
None == <<>>
Truthy(c) == c # None /\ c[1] # 0

\* v bound to a name once:  LET x == v IN F(x)
With(v, F(_)) == F(v)

\* idx = field.split('.'); f_idx = int(idx[0])
FieldIndex(field) == ParseInt(Split(field, ".")[1])

\* c_idx = int(idx[1]) if len(idx) > 1 else None
ComponentIndex(field) ==
    With(Split(field, "."), LAMBDA idx :
        IF Len(idx) > 1 THEN <<ParseInt(idx[2])>> ELSE None)

-----------------------------------------------------------------------------
(* split_hl7_messages                                                      *)

\* the header marker of the regular expression (?=MSH\|)
Marker == <<"M", "S", "H", "|">>

\* re.split(r'(?=MSH\|)', text): cut before every occurrence of the marker;
\* a marker at offset 0 leaves an empty first chunk
ReSplitBeforeMarker(text) ==
    LET at(i) == i + Len(Marker) - 1 <= Len(text)
                 /\ SubSeq(text, i, i + Len(Marker) - 1) = Marker
        RECURSIVE F(_, _, _)
        F(i, start, acc) ==
            IF i > Len(text) THEN Append(acc, SubSeq(text, start, Len(text)))
            ELSE IF at(i) THEN F(i + 1, i, Append(acc, SubSeq(text, start, i - 1)))
            ELSE F(i + 1, start, acc)
    IN  F(1, 1, <<>>)

\* [chunk.strip() for chunk in chunks if chunk.strip()]
StrippedChunks(chunks) ==
    With(SelectSeq(chunks, LAMBDA chunk : Strip(chunk) # <<>>), LAMBDA kept :
        [i \in 1..Len(kept) |-> Strip(kept[i])])

split_hl7_messages(text) ==
    StrippedChunks(ReSplitBeforeMarker(Replace(text, "\r", "\n")))

-----------------------------------------------------------------------------
(* segment_line_matches                                                    *)
(* A call ends "True", "False" or, were an index out of range, "IndexError".*)

\* a guard that lets the index one past the last field through
FieldOutOfRangeOffByOne(f_idx, parts) == f_idx > Len(parts)

\* if f_idx >= len(parts): return False
FieldOutOfRange(f_idx, parts) == f_idx >= Len(parts)

\* if c_idx > len(comps): return False
ComponentOutOfRange(c_idx, comps) == c_idx > Len(comps)

\* the component branch of the loop body
FilterOnComponent(comps, c, expected) ==
    IF ComponentOutOfRange(c, comps) THEN "False"
    ELSE IF ~HasIndex(comps, c - 1) THEN "IndexError"
    ELSE IF PyAt(comps, c - 1) # expected THEN "False"
    ELSE "next"

\* one pass of the loop body: "next" when the filter holds on the line
FilterOnLine(parts, field, expected) ==
    With(FieldIndex(field), LAMBDA f_idx :
    With(ComponentIndex(field), LAMBDA c_idx :
        IF FieldOutOfRange(f_idx, parts) THEN "False"
        ELSE IF ~HasIndex(parts, f_idx) THEN "IndexError"
        ELSE IF Truthy(c_idx)
        THEN FilterOnComponent(Split(PyAt(parts, f_idx), "^"), c_idx[1], expected)
        ELSE IF PyAt(parts, f_idx) # expected THEN "False"
        ELSE "next"))

\* field_filters is a list of (field, expected)
segment_line_matches(parts, field_filters) ==
    LET RECURSIVE Loop(_)
        Loop(k) ==
            IF k > Len(field_filters) THEN "True"
            ELSE With(FilterOnLine(parts, field_filters[k][1], field_filters[k][2]),
                      LAMBDA r : IF r = "next" THEN Loop(k + 1) ELSE r)
    IN  Loop(1)

-----------------------------------------------------------------------------
(* message_satisfies_filters_exact_lines                                   *)

\* the lines of a text that are not blank
NonBlank(lines) == SelectSeq(lines, LAMBDA line : ~IsBlank(line))

\* each line split by |
SplitEach(lines) == [i \in 1..Len(lines) |-> Split(lines[i], "|")]

\* the non-blank lines of a message, each split by |
LineParts(message) == SplitEach(NonBlank(Split(message, "\n")))

\* grouped.get(seg, []): the split lines of one segment type, in message order
Grouped(message, seg) == SelectSeq(LineParts(message), LAMBDA parts : parts[1] = seg)

\* the keys of filters_by_segment, in insertion order
FilterSegments(fs) ==
    LET RECURSIVE F(_, _)
        F(i, acc) ==
            IF i > Len(fs) THEN acc
            ELSE IF \E k \in 1..Len(acc) : acc[k] = fs[i][1] THEN F(i + 1, acc)
            ELSE F(i + 1, Append(acc, fs[i][1]))
    IN  F(1, <<>>)

\* (field, val) of each (seg, field, val)
FieldAndValue(rules) == [i \in 1..Len(rules) |-> <<rules[i][2], rules[i][3]>>]

\* filters_by_segment[seg]: the (field, val) pairs of one segment type, in order
FiltersBySegment(fs, seg) == FieldAndValue(SelectSeq(fs, LAMBDA f : f[1] = seg))

\* the inner loop: the keys after the first matching line of seg is added
\* (unchanged when none matches), or that the line check raised
FirstMatch(seg, seg_lines, seg_filters, matched_keys) ==
    LET RECURSIVE Loop(_)
        Loop(i) ==
            IF i > Len(seg_lines) THEN [raised |-> FALSE, keys |-> matched_keys]
            ELSE With(segment_line_matches(seg_lines[i], seg_filters), LAMBDA r :
                     IF r = "IndexError" THEN [raised |-> TRUE, keys |-> {}]
                     ELSE IF r = "True"
                     THEN [raised |-> FALSE,
                           keys |-> matched_keys \cup {<<seg, IntToStr(i - 1)>>}]
                     ELSE Loop(i + 1))
    IN  Loop(1)

\* if not matched_keys: return False, set()
NoLinesMatched(seg, matched_keys) == matched_keys = {}

\* for seg, seg_filters in filters_by_segment.items(), over the keys segs
SegmentLoop(message, fs, segs) ==
    LET RECURSIVE Loop(_, _)
        Loop(k, matched_keys) ==
            IF k > Len(segs)
            THEN [raised |-> FALSE, passed |-> TRUE, matched_keys |-> matched_keys]
            ELSE With(FirstMatch(segs[k], Grouped(message, segs[k]),
                                 FiltersBySegment(fs, segs[k]), matched_keys),
                      LAMBDA m :
                     IF m.raised
                     THEN [raised |-> TRUE, passed |-> FALSE, matched_keys |-> {}]
                     ELSE IF NoLinesMatched(segs[k], m.keys)
                     THEN [raised |-> FALSE, passed |-> FALSE, matched_keys |-> {}]
                     ELSE Loop(k + 1, m.keys))
    IN  Loop(1, {})

message_satisfies_filters_exact_lines(message, fs) ==
    SegmentLoop(message, fs, FilterSegments(fs))

-----------------------------------------------------------------------------
(* apply_bulk_edits_exact_lines                                            *)

\* a restriction that keeps the rules of every segment type
RestrictedToAny(rules, seg_type) == rules

\* [r for r in edit_group[...] if r[0] == seg_type], for filters and for edits
Restricted(rules, seg_type) == SelectSeq(rules, LAMBDA r : r[1] = seg_type)

\* a skip that asks for edits of the line's type only
GroupSkipsLineWithoutEdits(group_filters, group_edits) == group_edits = <<>>

\* if not group_filters or not group_edits: continue
GroupSkipsLine(group_filters, group_edits) ==
    group_filters = <<>> \/ group_edits = <<>>

\* the filter loop's  if f_idx >= len(parts): match = False
InlineFieldOutOfRange(f_idx, parts) == f_idx >= Len(parts)

\* the filter loop's  if c_idx > len(comps): match = False
InlineComponentOutOfRange(c_idx, comps) == c_idx > Len(comps)

\* the component branch of the inline filter loop
InlineFilterOnComponent(comps, c, expected) ==
    IF InlineComponentOutOfRange(c, comps) THEN "False"
    ELSE IF ~HasIndex(comps, c - 1) THEN "IndexError"
    ELSE IF PyAt(comps, c - 1) # expected THEN "False"
    ELSE "next"

\* one pass of the inline filter loop: "next" when the filter holds on the line
InlineFilterOnLine(parts, field, expected) ==
    With(FieldIndex(field), LAMBDA f_idx :
    With(ComponentIndex(field), LAMBDA c_idx :
        IF InlineFieldOutOfRange(f_idx, parts) THEN "False"
        ELSE IF ~HasIndex(parts, f_idx) THEN "IndexError"
        ELSE IF Truthy(c_idx)
        THEN InlineFilterOnComponent(Split(PyAt(parts, f_idx), "^"), c_idx[1], expected)
        ELSE IF PyAt(parts, f_idx) # expected THEN "False"
        ELSE "next"))

\* the inline filter loop over group_filters, a list of (seg, field, expected):
\* the value of match after it, or "IndexError"
InlineMatch(parts, group_filters) ==
    LET RECURSIVE Loop(_)
        Loop(k) ==
            IF k > Len(group_filters) THEN "True"
            ELSE With(InlineFilterOnLine(parts, group_filters[k][2], group_filters[k][3]),
                      LAMBDA r : IF r = "next" THEN Loop(k + 1) ELSE r)
    IN  Loop(1)

\* the edit loop's  if f_idx >= len(parts): continue
EditFieldOutOfRange(f_idx, parts) == f_idx >= Len(parts)

\* '' if new_val.lower() == 'delete' else new_val
WrittenValue(new_val) ==
    IF Lower(new_val) = <<"d", "e", "l", "e", "t", "e">> THEN <<>> ELSE new_val

\* while len(comps) < c_idx: comps.append('')
Padded(comps, c_idx) ==
    [i \in 1..(IF Len(comps) < c_idx THEN c_idx ELSE Len(comps)) |->
        IF i <= Len(comps) THEN comps[i] ELSE <<>>]

\* an assignment that inserts the value in front of the addressed component
ComponentSetInserting(comps, c_idx, value) ==
    SubSeq(comps, 1, c_idx - 1) \o <<value>> \o SubSeq(comps, c_idx, Len(comps))

\* comps[c_idx - 1] = value, on the padded list
ComponentSet(comps, c_idx, value) == [comps EXCEPT ![c_idx] = value]

\* the component branch of the edit loop: the new field text
EditedField(field_text, c_idx, new_val) ==
    Join(ComponentSet(Padded(Split(field_text, "^"), c_idx), c_idx,
                      WrittenValue(new_val)), "^")

\* one pass of the edit loop on the split line
ApplyEdit(parts, field, new_val) ==
    With(FieldIndex(field), LAMBDA f_idx :
    With(ComponentIndex(field), LAMBDA c_idx :
        IF EditFieldOutOfRange(f_idx, parts) THEN [raised |-> FALSE, parts |-> parts]
        ELSE IF ~HasIndex(parts, f_idx) THEN [raised |-> TRUE, parts |-> parts]
        ELSE IF Truthy(c_idx)
        THEN [raised |-> FALSE,
              parts |-> [parts EXCEPT ![f_idx + 1] =
                            EditedField(PyAt(parts, f_idx), c_idx[1], new_val)]]
        ELSE [raised |-> FALSE,
              parts |-> [parts EXCEPT ![f_idx + 1] = WrittenValue(new_val)]]))

\* the edit loop over group_edits, a list of (seg, field, new_val)
ApplyEdits(parts, group_edits) ==
    LET RECURSIVE Loop(_, _)
        Loop(k, cur) ==
            IF k > Len(group_edits) THEN [raised |-> FALSE, parts |-> cur]
            ELSE With(ApplyEdit(cur, group_edits[k][2], group_edits[k][3]),
                      LAMBDA r : IF r.raised THEN r ELSE Loop(k + 1, r.parts))
    IN  Loop(1, parts)

\* a group that does not match drops what the earlier groups wrote
ApplyIfMatchForgetting(match, parts, was_edited, group_edits) ==
    IF match = "IndexError"
    THEN [raised |-> TRUE, parts |-> parts, was_edited |-> was_edited]
    ELSE IF match = "True"
    THEN With(ApplyEdits(parts, group_edits), LAMBDA r :
             [raised |-> r.raised, parts |-> r.parts, was_edited |-> TRUE])
    ELSE [raised |-> FALSE, parts |-> parts, was_edited |-> FALSE]

\* if match: the edits are applied and was_edited = True
ApplyIfMatch(match, parts, was_edited, group_edits) ==
    IF match = "IndexError"
    THEN [raised |-> TRUE, parts |-> parts, was_edited |-> was_edited]
    ELSE IF match = "True"
    THEN With(ApplyEdits(parts, group_edits), LAMBDA r :
             [raised |-> r.raised, parts |-> r.parts, was_edited |-> TRUE])
    ELSE [raised |-> FALSE, parts |-> parts, was_edited |-> was_edited]

\* the body of  for edit_group in edits_by_filter_group  on the line as the
\* earlier groups left it, given the group's filters and edits of the line's type
ApplyRestricted(parts, was_edited, group_filters, group_edits) ==
    IF GroupSkipsLine(group_filters, group_edits)
    THEN [raised |-> FALSE, parts |-> parts, was_edited |-> was_edited]
    ELSE ApplyIfMatch(InlineMatch(parts, group_filters), parts, was_edited, group_edits)

ApplyGroup(parts, was_edited, seg_type, edit_group) ==
    ApplyRestricted(parts, was_edited,
                    Restricted(edit_group.filters, seg_type),
                    Restricted(edit_group.edits, seg_type))

\* for edit_group in edits_by_filter_group, then the output line
GroupLoop(line, original_parts, groups) ==
    LET RECURSIVE Loop(_, _, _)
        Loop(k, parts, was_edited) ==
            IF k > Len(groups)
            THEN [raised |-> FALSE,
                  line |-> IF was_edited THEN Join(parts, "|")
                           ELSE Join(original_parts, "|")]
            ELSE With(ApplyGroup(parts, was_edited, original_parts[1], groups[k]),
                      LAMBDA r : IF r.raised THEN [raised |-> TRUE, line |-> line]
                                 ELSE Loop(k + 1, r.parts, r.was_edited))
    IN  Loop(1, original_parts, FALSE)

\* the body of  for line in lines: the output line
EditedLine(line, groups) ==
    IF IsBlank(line) THEN [raised |-> FALSE, line |-> line]
    ELSE GroupLoop(line, Split(line, "|"), groups)

\* each line of a message, edited
EditedLines(lines, groups) == [i \in 1..Len(lines) |-> EditedLine(lines[i], groups)]

\* '\n'.join(output_lines), or that some line raised
Collected(done) ==
    [raised |-> \E i \in 1..Len(done) : done[i].raised,
     message |-> Join([i \in 1..Len(done) |-> done[i].line], "\n")]

\* the body of  for message in messages: the output message
EditedMessage(message, groups) == Collected(EditedLines(Split(message, "\n"), groups))

\* the list of output messages, or that some message raised
CollectedCorpus(done) ==
    [raised |-> \E i \in 1..Len(done) : done[i].raised,
     edited_messages |-> [i \in 1..Len(done) |-> done[i].message]]

apply_bulk_edits_exact_lines(corpus, groups) ==
    CollectedCorpus([i \in 1..Len(corpus) |-> EditedMessage(corpus[i], groups)])

-----------------------------------------------------------------------------
(* highlight_diff                                                          *)
(* A marker is one element of the text: it holds no delimiter, so no split *)
(* cuts it.                                                                *)

SpanOld == "<span style='background-color:#ffeeba;'>"
SpanNew == "<span style='background-color:#c3e6cb;'>"
SpanEnd == "</span>"

\* f"<span style='...'>{v}</span>"
Wrapped(open, v) == <<open>> \o v \o <<SpanEnd>>

\* any(b_line.startswith(seg + '|') for seg, _, _ in edits)
SegmentInEdits(b_line, edits) ==
    \E k \in 1..Len(edits) : StartsWith(b_line, edits[k][1] \o <<"|">>)

\* the component branch: the field text with component c wrapped, when both
\* sides have it
WrappedComponent(open, comps, other_comps, c) ==
    IF c <= Len(comps) /\ c <= Len(other_comps)
    THEN Join([comps EXCEPT ![c] = Wrapped(open, comps[c])], "^")
    ELSE Join(comps, "^")

\* one side's split line after one pass of  for seg, field, _ in edits
HighlightSide(open, parts, other_parts, f_idx, c_idx) ==
    IF ~(f_idx < Len(parts) /\ f_idx < Len(other_parts)) THEN parts
    ELSE IF Truthy(c_idx)
    THEN [parts EXCEPT ![f_idx + 1] =
             WrappedComponent(open, Split(PyAt(parts, f_idx), "^"),
                              Split(PyAt(other_parts, f_idx), "^"), c_idx[1])]
    ELSE [parts EXCEPT ![f_idx + 1] = Wrapped(open, PyAt(parts, f_idx))]

\* one pass of  for seg, field, _ in edits  on the two split lines
HighlightEdit(parts_b, parts_a, b_line, seg, field) ==
    IF ~StartsWith(b_line, seg \o <<"|">>) THEN <<parts_b, parts_a>>
    ELSE << HighlightSide(SpanOld, parts_b, parts_a, FieldIndex(field), ComponentIndex(field)),
            HighlightSide(SpanNew, parts_a, parts_b, FieldIndex(field), ComponentIndex(field)) >>

\* the loop over edits on one differing line pair, then the two joined lines
EditLoop(b_line, a_line, edits) ==
    LET RECURSIVE Loop(_, _, _)
        Loop(k, parts_b, parts_a) ==
            IF k > Len(edits) THEN <<Join(parts_b, "|"), Join(parts_a, "|")>>
            ELSE With(HighlightEdit(parts_b, parts_a, b_line, edits[k][1], edits[k][2]),
                      LAMBDA pair : Loop(k + 1, pair[1], pair[2]))
    IN  Loop(1, Split(b_line, "|"), Split(a_line, "|"))

\* the body of  for i, (b_line, a_line) in enumerate(zip(...)): the two lines after it
HighlightLine(b_line, a_line, edits) ==
    IF b_line = a_line THEN <<b_line, a_line>>
    ELSE IF ~SegmentInEdits(b_line, edits) THEN <<b_line, a_line>>
    ELSE EditLoop(b_line, a_line, edits)

\* the smaller of two numbers: zip stops at the shorter list
Min(a, b) == IF a < b THEN a ELSE b

\* the line lists of both sides after the loop over zip(before_lines, after_lines)
HighlightLines(before_lines, after_lines, edits) ==
    With([i \in 1..Min(Len(before_lines), Len(after_lines)) |->
             HighlightLine(before_lines[i], after_lines[i], edits)],
         LAMBDA done :
             << [i \in 1..Len(before_lines) |->
                    IF i <= Len(done) THEN done[i][1] ELSE before_lines[i]],
                [i \in 1..Len(after_lines) |->
                    IF i <= Len(done) THEN done[i][2] ELSE after_lines[i]] >>)

\* return '\n'.join(before_lines), '\n'.join(after_lines)
JoinedPair(pair) == <<Join(pair[1], "\n"), Join(pair[2], "\n")>>

highlight_diff(before, after, edits) ==
    JoinedPair(HighlightLines(Split(before, "\n"), Split(after, "\n"), edits))

\* all_edits_flat = [edit for group in edits_by_filter_group for edit in group["edits"]]
AllEditsFlat(groups) ==
    LET RECURSIVE F(_)
        F(k) == IF k > Len(groups) THEN <<>> ELSE groups[k].edits \o F(k + 1)
    IN  F(1)

-----------------------------------------------------------------------------
(* The inputs the model draws from.                                        *)

SeqsUpTo(S, n) == UNION { [1..k -> S] : k \in 0..n }

\* blobs: up to MaxPieces pieces, concatenated
Pieces == { Marker, <<"M", "S">>, <<"H", "|">>, <<"a">>, <<"\r">>, <<" ">> }
Blobs == { Concat(ps) : ps \in SeqsUpTo(Pieces, MaxPieces) }

\* segment lines:  P|a   P|a^b   O|a|b   and a blank line
LinePa == <<"P", "|", "a">>
LinePab == <<"P", "|", "a", "^", "b">>
LineOab == <<"O", "|", "a", "|", "b">>
Lines == { LinePa, LinePab, LineOab, <<>> }

\* messages of 1..MaxLines lines
Messages == { Join(ls, "\n") : ls \in SeqsUpTo(Lines, MaxLines) \ {<<>>} }

\* FilterPredicates (seg, field, expected): matching, mismatching, and with the
\* field or the component out of range, depending on the line
Predicates ==
    { << <<"P">>, <<"1">>, <<"a">> >>,
      << <<"P">>, <<"1", ".", "1">>, <<"a">> >>,
      << <<"P">>, <<"1", ".", "2">>, <<"b">> >>,
      << <<"P">>, <<"2">>, <<"b">> >>,
      << <<"O">>, <<"1">>, <<"a">> >>,
      << <<"O">>, <<"1", ".", "2">>, <<"b">> >> }

\* EditOperations (seg, field, new_val): whole-field and component edits, a
\* field out of range on the P lines, DELETE in two spellings, and values that
\* hold a delimiter
Edits ==
    { << <<"P">>, <<"1">>, <<"x">> >>,
      << <<"P">>, <<"1">>, <<"D", "E", "L", "E", "T", "E">> >>,
      << <<"P">>, <<"1", ".", "2">>, <<"x">> >>,
      << <<"P">>, <<"1", ".", "2">>, <<"x", "^", "y">> >>,
      << <<"P">>, <<"2">>, <<"x">> >>,
      << <<"O">>, <<"2">>, <<"x", "|", "y">> >>,
      << <<"O">>, <<"2">>, <<"D", "e", "l", "e", "t", "e">> >>,
      << <<"O">>, <<"1", ".", "2">>, <<"x">> >> }

\* corpora for one edit group: a message of a P and an O line, a message with
\* a blank line between two P lines, and a corpus of two messages
Corpora ==
    { << Join(<<LinePa, LineOab>>, "\n") >>,
      << Join(<<LinePab, <<>>, LinePa>>, "\n") >>,
      << LineOab, LinePab >> }

\* edit groups of one filter and one edit, for runs with two groups: the second
\* group's filter may hold only once the first group's edit is made
SimpleGroups ==
    { [filters |-> <<f>>, edits |-> <<e>>] :
        f \in { << <<"P">>, <<"1">>, <<"a">> >>,
                << <<"P">>, <<"1">>, <<"x">> >>,
                << <<"P">>, <<"1", ".", "2">>, <<"b">> >>,
                << <<"O">>, <<"1">>, <<"a">> >> },
        e \in { << <<"P">>, <<"1">>, <<"x">> >>,
                << <<"P">>, <<"1">>, <<"x", "|", "y">> >>,
                << <<"P">>, <<"1", ".", "2">>, <<"x", "^", "y">> >>,
                << <<"P">>, <<"1">>, <<"D", "E", "L", "E", "T", "E">> >>,
                << <<"O">>, <<"1">>, <<"x">> >>,
                << <<"O">>, <<"2">>, <<"a">> >> } }

\* edit rows of the form: an EditOperation, or a row whose value is left empty
EditRows ==
    Edits \cup { << <<"P">>, <<"1">>, <<>> >>, << <<"O">>, <<"2">>, <<>> >> }

\* xs with x inserted after its first k elements
InsertAt(xs, k, x) == SubSeq(xs, 1, k) \o <<x>> \o SubSeq(xs, k + 1, Len(xs))

-----------------------------------------------------------------------------
(* The splitter run on a blob.                                             *)

InitSplit ==
    /\ pc = "blob"
    /\ raw_text \in Blobs
    /\ edit_rows = <<>>
    /\ messages = <<>>
    /\ filters = <<>>
    /\ more_filters = <<>>
    /\ passed = FALSE
    /\ passed_more = FALSE
    /\ edits_by_filter_group = <<>>
    /\ line_matches = <<>>
    /\ edited_messages = <<>>
    /\ edited_stepwise = <<>>
    /\ highlighted = <<>>
    /\ raised = FALSE

\* handle_multiple_uploads on one decoded file: messages = split_hl7_messages(raw)
LoadBlob ==
    /\ pc = "blob"
    /\ messages' = split_hl7_messages(raw_text)
    /\ pc' = "loaded"
    /\ UNCHANGED <<raw_text, edit_rows, filters, more_filters, passed, passed_more,
                   edits_by_filter_group, line_matches, edited_messages,
                   edited_stepwise, highlighted, raised>>

NextSplit == LoadBlob

SpecSplit == InitSplit /\ [][NextSplit]_vars

-----------------------------------------------------------------------------
(* The message-level filter check run on one message, under a filter list  *)
(* and under the list with one more predicate.                             *)

InitFilter ==
    /\ pc = "filters"
    /\ raw_text = <<>>
    /\ edit_rows = <<>>
    /\ messages \in { <<m>> : m \in Messages }
    /\ filters \in SeqsUpTo(Predicates, MaxPredicates)
    /\ more_filters = <<>>
    /\ passed = FALSE
    /\ passed_more = FALSE
    /\ edits_by_filter_group = <<>>
    /\ line_matches = <<>>
    /\ edited_messages = <<>>
    /\ edited_stepwise = <<>>
    /\ highlighted = <<>>
    /\ raised = FALSE

\* the operator adds one filter row to the group, at any place of the list
AddFilter ==
    /\ pc = "filters"
    /\ \E p \in Predicates, k \in 0..Len(filters) :
           more_filters' = InsertAt(filters, k, p)
    /\ pc' = "grown"
    /\ UNCHANGED <<raw_text, edit_rows, messages, filters, passed, passed_more,
                   edits_by_filter_group, line_matches, edited_messages,
                   edited_stepwise, highlighted, raised>>

\* passed, _ = message_satisfies_filters_exact_lines(msg, group["filters"]),
\* for the list and for the grown list
MatchBoth ==
    /\ pc = "grown"
    /\ LET r == message_satisfies_filters_exact_lines(messages[1], filters)
           q == message_satisfies_filters_exact_lines(messages[1], more_filters)
       IN  /\ passed' = r.passed
           /\ passed_more' = q.passed
           /\ raised' = (r.raised \/ q.raised)
    /\ pc' = "matched"
    /\ UNCHANGED <<raw_text, edit_rows, messages, filters, more_filters,
                   edits_by_filter_group, line_matches, edited_messages,
                   edited_stepwise, highlighted>>

NextFilter == AddFilter \/ MatchBoth

SpecFilter == InitFilter /\ [][NextFilter]_vars

-----------------------------------------------------------------------------
(* One edit group: the message-level check and the per-line check on the   *)
(* first message, the applier on the corpus, and the applier again on its  *)
(* own output.                                                             *)

InitApply ==
    /\ pc = "groups"
    /\ raw_text = <<>>
    /\ edit_rows = <<>>
    /\ messages \in Corpora
    /\ filters = <<>>
    /\ more_filters = <<>>
    /\ passed = FALSE
    /\ passed_more = FALSE
    /\ edits_by_filter_group \in
           { << [filters |-> fs, edits |-> es] >> :
               fs \in SeqsUpTo(Predicates, MaxFilters), es \in SeqsUpTo(Edits, MaxEdits) }
    /\ line_matches = <<>>
    /\ edited_messages = <<>>
    /\ edited_stepwise = <<>>
    /\ highlighted = <<>>
    /\ raised = FALSE

\* segment_line_matches on every non-blank line of a message, under the
\* filters of the line's segment type
LineMatches(message, fs) ==
    With(LineParts(message), LAMBDA lines :
        [i \in 1..Len(lines) |->
            segment_line_matches(lines[i], FiltersBySegment(fs, lines[i][1]))])

\* "Determine which messages match all groups", for the first message and the
\* one group
MatchMessage ==
    /\ pc = "groups"
    /\ LET r == message_satisfies_filters_exact_lines(messages[1],
                                                      edits_by_filter_group[1].filters)
       IN  /\ passed' = r.passed
           /\ raised' = (raised \/ r.raised)
    /\ line_matches' = LineMatches(messages[1], edits_by_filter_group[1].filters)
    /\ pc' = "ready"
    /\ UNCHANGED <<raw_text, edit_rows, messages, filters, more_filters, passed_more,
                   edits_by_filter_group, edited_messages, edited_stepwise,
                   highlighted>>

\* edited_messages = apply_bulk_edits_exact_lines(messages, edits_by_filter_group)
ApplyAll ==
    /\ pc = "ready"
    /\ LET r == apply_bulk_edits_exact_lines(messages, edits_by_filter_group)
       IN  /\ edited_messages' = r.edited_messages
           /\ raised' = (raised \/ r.raised)
    /\ pc' = "applied"
    /\ UNCHANGED <<raw_text, edit_rows, messages, filters, more_filters, passed, passed_more,
                   edits_by_filter_group, line_matches, edited_stepwise, highlighted>>

\* the applier run again, with the same groups, on the corpus it produced
ApplyAgain ==
    /\ pc = "applied"
    /\ LET r == apply_bulk_edits_exact_lines(edited_messages, edits_by_filter_group)
       IN  /\ edited_stepwise' = r.edited_messages
           /\ raised' = (raised \/ r.raised)
    /\ pc' = "again"
    /\ UNCHANGED <<raw_text, edit_rows, messages, filters, more_filters, passed, passed_more,
                   edits_by_filter_group, line_matches, edited_messages, highlighted>>

NextApply == MatchMessage \/ ApplyAll \/ ApplyAgain

SpecApply == InitApply /\ [][NextApply]_vars

-----------------------------------------------------------------------------
(* Two edit groups G1, G2 on one message: the applier run once with        *)
(* [G1, G2], then with [G1] and with [G2] on that result.                  *)

InitSeq ==
    /\ pc = "ready"
    /\ raw_text = <<>>
    /\ edit_rows = <<>>
    /\ messages \in { <<m>> : m \in Messages }
    /\ filters = <<>>
    /\ more_filters = <<>>
    /\ passed = FALSE
    /\ passed_more = FALSE
    /\ edits_by_filter_group \in { <<g1, g2>> : g1 \in SimpleGroups, g2 \in SimpleGroups }
    /\ line_matches = <<>>
    /\ edited_messages = <<>>
    /\ edited_stepwise = <<>>
    /\ highlighted = <<>>
    /\ raised = FALSE

\* apply_bulk_edits_exact_lines(messages, [G1])
ApplyFirst ==
    /\ pc = "applied"
    /\ LET r == apply_bulk_edits_exact_lines(messages, <<edits_by_filter_group[1]>>)
       IN  /\ edited_stepwise' = r.edited_messages
           /\ raised' = (raised \/ r.raised)
    /\ pc' = "first"
    /\ UNCHANGED <<raw_text, edit_rows, messages, filters, more_filters, passed, passed_more,
                   edits_by_filter_group, line_matches, edited_messages, highlighted>>

\* apply_bulk_edits_exact_lines(that result, [G2])
ApplySecond ==
    /\ pc = "first"
    /\ LET r == apply_bulk_edits_exact_lines(edited_stepwise, <<edits_by_filter_group[2]>>)
       IN  /\ edited_stepwise' = r.edited_messages
           /\ raised' = (raised \/ r.raised)
    /\ pc' = "second"
    /\ UNCHANGED <<raw_text, edit_rows, messages, filters, more_filters, passed, passed_more,
                   edits_by_filter_group, line_matches, edited_messages, highlighted>>

NextSeq == ApplyAll \/ ApplyFirst \/ ApplySecond

SpecSeq == InitSeq /\ [][NextSeq]_vars

-----------------------------------------------------------------------------
(* The preview: the applier on one message, then the diff of the message   *)
(* and its edited form under the flat list of all the groups' edits.       *)

\* before_highlighted, after_highlighted =
\*     highlight_diff(preview_before, preview_after, all_edits_flat)
Highlight ==
    /\ pc = "applied"
    /\ highlighted' = highlight_diff(messages[1], edited_messages[1],
                                     AllEditsFlat(edits_by_filter_group))
    /\ pc' = "highlighted"
    /\ UNCHANGED <<raw_text, edit_rows, messages, filters, more_filters, passed, passed_more,
                   edits_by_filter_group, line_matches, edited_messages,
                   edited_stepwise, raised>>

NextDiff == ApplyAll \/ Highlight

SpecDiff == InitSeq /\ [][NextDiff]_vars

-----------------------------------------------------------------------------
(* The form of one edit group: its filter rows and edit rows are collected *)
(* into the group list, and the applier runs on the corpus with that list. *)

InitGroups ==
    /\ pc = "rows"
    /\ raw_text = <<>>
    /\ messages \in Corpora
    /\ filters \in SeqsUpTo(Predicates, MaxFilters) \ {<<>>}
    /\ edit_rows \in SeqsUpTo(EditRows, MaxEdits) \ {<<>>}
    /\ more_filters = <<>>
    /\ passed = FALSE
    /\ passed_more = FALSE
    /\ edits_by_filter_group = <<>>
    /\ line_matches = <<>>
    /\ edited_messages = <<>>
    /\ edited_stepwise = <<>>
    /\ highlighted = <<>>
    /\ raised = FALSE

\* if new_val != "": edit_fields.append((seg, field, new_val))
EditFields(rows) == SelectSeq(rows, LAMBDA r : r[3] # <<>>)

\* if group_filters and edit_fields: edits_by_filter_group.append({...})
StoredGroups(group_filters, edit_fields) ==
    IF group_filters # <<>> /\ edit_fields # <<>>
    THEN << [filters |-> group_filters, edits |-> edit_fields] >>
    ELSE <<>>

\* one pass of  for group_index in range(edit_group_count): the rows are read
\* and the group is stored or left out; nothing is reported either way
StoreGroup ==
    /\ pc = "rows"
    /\ edits_by_filter_group' = StoredGroups(filters, EditFields(edit_rows))
    /\ pc' = "ready"
    /\ UNCHANGED <<raw_text, edit_rows, messages, filters, more_filters, passed,
                   passed_more, line_matches, edited_messages, edited_stepwise,
                   highlighted, raised>>

NextGroups == StoreGroup \/ ApplyAll

SpecGroups == InitGroups /\ [][NextGroups]_vars

-----------------------------------------------------------------------------
(* What the spec says an address resolves to, for stating the claims.      *)

\* the values at an address of a split line: none when the field index exceeds
\* the line's field count or the component index the components present
Resolved(parts, field) ==
    LET f == FieldIndex(field)
        c == ComponentIndex(field)
    IN  IF f > Len(parts) - 1 THEN {}
        ELSE IF ~Truthy(c) THEN {parts[f + 1]}
        ELSE LET comps == Split(parts[f + 1], "^")
             IN  IF c[1] > Len(comps) THEN {} ELSE {comps[c[1]]}

\* the rules (seg, field, value) of a list that name one segment type
OfSegment(rules, seg) == SelectSeq(rules, LAMBDA r : r[1] = seg)

\* a line satisfies every predicate of a list of (seg, field, expected)
SatisfiesAll(parts, preds) ==
    \A k \in 1..Len(preds) : preds[k][3] \in Resolved(parts, preds[k][2])

\* the segment types a list of rules references
SegmentsOf(rules) == { rules[k][1] : k \in 1..Len(rules) }

\* per referenced segment type, some line of that type satisfies all its filters
EverySegmentHasMatch(message, preds) ==
    \A seg \in SegmentsOf(preds) :
        \E i \in 1..Len(LineParts(message)) :
            /\ LineParts(message)[i][1] = seg
            /\ SatisfiesAll(LineParts(message)[i], OfSegment(preds, seg))

\* whether the marker occurs anywhere in a text
HasMarker(text) ==
    \E i \in 1..Len(text) :
        i + Len(Marker) - 1 <= Len(text) /\ SubSeq(text, i, i + Len(Marker) - 1) = Marker

\* whether a character occurs in a text
Contains(text, ch) == \E i \in 1..Len(text) : text[i] = ch

\* the segment type of a line: its text before the first |
SegmentType(line) == Split(line, "|")[1]

\* a group is applicable to a line and matches it: it has a filter and an edit
\* of the line's segment type, and the line satisfies all those filters
AppliesTo(group, line) ==
    /\ OfSegment(group.filters, SegmentType(line)) # <<>>
    /\ OfSegment(group.edits, SegmentType(line)) # <<>>
    /\ SatisfiesAll(Split(line, "|"), OfSegment(group.filters, SegmentType(line)))

\* a group has both filters and edits
Valid(group) == group.filters # <<>> /\ group.edits # <<>>

\* the lines of message m of a corpus
LinesOf(corpus, m) == Split(corpus[m], "\n")

\* line j of every message is the same text in two corpora
SameLine(corpus, other, m, j) ==
    /\ j <= Len(LinesOf(other, m))
    /\ LinesOf(other, m)[j] = LinesOf(corpus, m)[j]

\* the positions (m, j) of the lines of a corpus
Positions(corpus) ==
    UNION { { <<m, j>> : j \in 1..Len(LinesOf(corpus, m)) } : m \in 1..Len(corpus) }

\* no edit value of a group holds the field delimiter or a line break, and no
\* component edit's value holds the component delimiter
DelimiterFree(group) ==
    \A k \in 1..Len(group.edits) :
        /\ ~Contains(group.edits[k][3], "|")
        /\ ~Contains(group.edits[k][3], "\n")
        /\ Truthy(ComponentIndex(group.edits[k][2])) => ~Contains(group.edits[k][3], "^")

\* no edit value of a group holds the field delimiter or a line break
PipeFree(group) ==
    \A k \in 1..Len(group.edits) :
        ~Contains(group.edits[k][3], "|") /\ ~Contains(group.edits[k][3], "\n")

-----------------------------------------------------------------------------
(* The claims.                                                             *)

\* C1: the message-level check returns true exactly when every segment type the
\* filter list references has a line of that type satisfying all the filters of
\* that type; one referenced type with no matching line fails the message.
C1_TrueIffEverySegmentMatches ==
    pc = "matched" => (passed <=> EverySegmentHasMatch(messages[1], filters))

\* C2: filter monotonicity: a message that does not pass under a filter list
\* does not pass under the list with one more predicate added at any place.
C2_AddingAFilterNeverGrows ==
    pc = "matched" => (passed_more => passed)

\* C3 as stated: applying a valid group twice gives what applying it once gives.
C3_ApplyTwiceIsApplyOnce ==
    (pc = "again" /\ Valid(edits_by_filter_group[1]))
        => edited_stepwise = edited_messages

\* C3 as amended: applying a valid group twice gives what applying it once
\* gives, when no edit value holds | or a line break and no component edit's
\* value holds ^.
C3_ApplyTwiceIsApplyOnceWithoutDelimiters ==
    (pc = "again" /\ Valid(edits_by_filter_group[1])
                  /\ DelimiterFree(edits_by_filter_group[1]))
        => edited_stepwise = edited_messages

\* C3's case: a delimiter-free group with a component edit changed a line, and
\* the changed line still satisfies the group's filters, so the second run
\* edits it again.
C3_Witness ==
    /\ pc = "again"
    /\ Valid(edits_by_filter_group[1])
    /\ DelimiterFree(edits_by_filter_group[1])
    /\ \E k \in 1..Len(edits_by_filter_group[1].edits) :
           Truthy(ComponentIndex(edits_by_filter_group[1].edits[k][2]))
    /\ \E p \in Positions(messages) :
           /\ ~SameLine(messages, edited_messages, p[1], p[2])
           /\ AppliesTo(edits_by_filter_group[1], LinesOf(edited_messages, p[1])[p[2]])

\* C4: a line for which no group is both applicable and matching is, at the
\* same position of the output message, the same text.
C4_UntouchedLinesAreIdentical ==
    pc # "ready" =>
        \A p \in Positions(messages) :
            (\A g \in 1..Len(edits_by_filter_group) :
                ~AppliesTo(edits_by_filter_group[g], LinesOf(messages, p[1])[p[2]]))
            => SameLine(messages, edited_messages, p[1], p[2])

\* C4's case: the run changed the message, and left alone a blank line or a
\* line that a group has filters and edits for but that does not match them.
C4_Witness ==
    /\ pc = "applied"
    /\ edited_messages # messages
    /\ \E p \in Positions(messages) :
           LET line == LinesOf(messages, p[1])[p[2]]
           IN  /\ \A g \in 1..Len(edits_by_filter_group) :
                      ~AppliesTo(edits_by_filter_group[g], line)
               /\ \/ IsBlank(line)
                  \/ \E g \in 1..Len(edits_by_filter_group) :
                         /\ OfSegment(edits_by_filter_group[g].filters, SegmentType(line)) # <<>>
                         /\ OfSegment(edits_by_filter_group[g].edits, SegmentType(line)) # <<>>

\* C5: a blob with no occurrence of the marker MSH| yields zero messages
\* (and no error), whatever else it contains.
C5_MarkerFreeYieldsNothing ==
    (pc = "loaded" /\ ~HasMarker(raw_text)) => (messages = <<>> /\ ~raised)

\* C6: the highlighter changes a field of a before-line only if the edit list
\* holds an address in that field for the line's segment type and the value at
\* that address differs between the before-line and the after-line.
C6_MarksOnlyChangedAddresses ==
    pc = "highlighted" =>
        \A j \in 1..Len(LinesOf(messages, 1)) :
            LET b_parts == Split(LinesOf(messages, 1)[j], "|")
                a_parts == Split(LinesOf(edited_messages, 1)[j], "|")
                h_parts == Split(Split(highlighted[1], "\n")[j], "|")
                flat == AllEditsFlat(edits_by_filter_group)
            IN  /\ Len(h_parts) = Len(b_parts)
                /\ \A k \in 1..Len(b_parts) :
                       h_parts[k] # b_parts[k] =>
                           \E e \in 1..Len(flat) :
                               /\ flat[e][1] = b_parts[1]
                               /\ FieldIndex(flat[e][2]) = k - 1
                               /\ Resolved(b_parts, flat[e][2]) # Resolved(a_parts, flat[e][2])

\* C7: a group of the form whose edit list is empty (every edit row's value is
\* left empty) is met with an error once its rows are read, never taken and
\* silently treated as doing nothing.
C7_MalformedGroupIsRejected ==
    (pc \in {"ready", "applied"} /\ edit_rows # <<>>
         /\ \A k \in 1..Len(edit_rows) : edit_rows[k][3] = <<>>)
        => raised

\* C8: a predicate whose field index exceeds the line's field count, or whose
\* component index exceeds the components present, makes the per-line check
\* false, in segment_line_matches and in the applier, and nothing raises; and
\* edits whose field index exceeds the line's field count leave the line as it is.
C8_OutOfRangeIsNoMatchAndNoOp ==
    /\ ~raised
    /\ pc # "groups" =>
           \A i \in 1..Len(LineParts(messages[1])) :
               (\E k \in 1..Len(edits_by_filter_group[1].filters) :
                   /\ edits_by_filter_group[1].filters[k][1] = LineParts(messages[1])[i][1]
                   /\ Resolved(LineParts(messages[1])[i],
                               edits_by_filter_group[1].filters[k][2]) = {})
               => line_matches[i] = "False"
    /\ pc \in {"applied", "again"} =>
           \A p \in Positions(messages) :
               LET line == LinesOf(messages, p[1])[p[2]]
                   fs == OfSegment(edits_by_filter_group[1].filters, SegmentType(line))
                   es == OfSegment(edits_by_filter_group[1].edits, SegmentType(line))
               IN  \/ /\ \A k \in 1..Len(fs) : Resolved(Split(line, "|"), fs[k][2]) # {}
                      /\ \E k \in 1..Len(es) :
                             FieldIndex(es[k][2]) <= Len(Split(line, "|")) - 1
                   \/ SameLine(messages, edited_messages, p[1], p[2])

\* C8's case: one line has a filter whose component is out of range, and
\* another line matches its filters and has only edits whose field is out of range.
C8_Witness ==
    /\ pc = "applied"
    /\ Valid(edits_by_filter_group[1])
    /\ \E i \in 1..Len(LineParts(messages[1])) :
           \E k \in 1..Len(edits_by_filter_group[1].filters) :
               /\ edits_by_filter_group[1].filters[k][1] = LineParts(messages[1])[i][1]
               /\ Resolved(LineParts(messages[1])[i],
                           edits_by_filter_group[1].filters[k][2]) = {}
    /\ \E p \in Positions(messages) :
           LET line == LinesOf(messages, p[1])[p[2]]
               es == OfSegment(edits_by_filter_group[1].edits, SegmentType(line))
           IN  /\ AppliesTo(edits_by_filter_group[1], line)
               /\ \A k \in 1..Len(es) : FieldIndex(es[k][2]) > Len(Split(line, "|")) - 1

\* C9 as stated: one run with [G1, G2] gives what a run with [G1] followed by a
\* run with [G2] on its result gives.
C9_OneRunIsStepwise ==
    pc = "second" => edited_stepwise = edited_messages

\* C9 as amended: the same, when no edit value holds | or a line break.
C9_OneRunIsStepwiseWithoutPipes ==
    (pc = "second" /\ \A g \in 1..Len(edits_by_filter_group) :
                          PipeFree(edits_by_filter_group[g]))
        => edited_stepwise = edited_messages

\* C9's case: G2 alone changes nothing, yet in the run with [G1, G2] it edits
\* the line G1 has modified.
C9_Witness ==
    /\ pc = "second"
    /\ \A g \in 1..Len(edits_by_filter_group) : PipeFree(edits_by_filter_group[g])
    /\ apply_bulk_edits_exact_lines(messages, <<edits_by_filter_group[2]>>).edited_messages
           = messages
    /\ apply_bulk_edits_exact_lines(messages, <<edits_by_filter_group[1]>>).edited_messages
           # edited_messages

\* C10: a line is edited only under a group with a filter and an edit of the
\* line's segment type; a group whose filters and edits share no segment type
\* changes nothing, also on a message the message-level check passes.
C10_NoGatingAcrossSegmentTypes ==
    pc \in {"applied", "again"} =>
        /\ \A p \in Positions(messages) :
               LET seg == SegmentType(LinesOf(messages, p[1])[p[2]])
               IN  \/ /\ OfSegment(edits_by_filter_group[1].filters, seg) # <<>>
                      /\ OfSegment(edits_by_filter_group[1].edits, seg) # <<>>
                   \/ SameLine(messages, edited_messages, p[1], p[2])
        /\ SegmentsOf(edits_by_filter_group[1].filters)
               \cap SegmentsOf(edits_by_filter_group[1].edits) = {}
           => edited_messages = messages

\* C10's case: the first message passes the group's filters, the group's edits
\* are of another segment type, and one of them addresses a value of a line of
\* the message that it would change.
C10_Witness ==
    /\ pc = "applied"
    /\ Valid(edits_by_filter_group[1])
    /\ passed
    /\ SegmentsOf(edits_by_filter_group[1].filters)
           \cap SegmentsOf(edits_by_filter_group[1].edits) = {}
    /\ \E i \in 1..Len(LineParts(messages[1])) :
           \E k \in 1..Len(edits_by_filter_group[1].edits) :
               /\ edits_by_filter_group[1].edits[k][1] = LineParts(messages[1])[i][1]
               /\ Resolved(LineParts(messages[1])[i],
                           edits_by_filter_group[1].edits[k][2])
                      \notin { {}, {edits_by_filter_group[1].edits[k][3]} }

====
